---- MODULE Spec2Model ----
(***************************************************************************)
(* A model of the scouting cycle of binance-trade-bot: the stop-loss       *)
(* monitor and the liquidation path of strategies/custom1_strategy.py, the *)
(* ratio engine and the rotation path of strategies/test1_strategy.py, and *)
(* the repository operations of database.py they call. The rotation a     *)
(* cycle reaches through _jump_to_best_coin is transaction_through_bridge  *)
(* of test1_strategy.py, the one implementation the sources hold.          *)
(*                                                                         *)
(* The exchange gateway (manager.get_ticker_price, get_currency_balance,   *)
(* get_min_notional, get_fee, sell_alt, buy_alt) and AutoTrader            *)
(* (_jump_to_best_coin, update_trade_threshold) are not part of the        *)
(* sources; what they return is drawn from small sets, and what they do to *)
(* the Trade records follows sections 4.3 and 6 of the specification.      *)
(*                                                                         *)
(* Numbers: prices, balances and notionals are integers. Fees are in units *)
(* of 1/1000, multipliers in tenths, pair ratios in units of 1/10000, so   *)
(* that every comparison the code makes on floats is made here on exact    *)
(* integers by cross-multiplication.                                       *)
(*                                                                         *)
(* Specifications: Spec (the scout cycle), SpecFaults (scouting from USDT  *)
(* with calls that raise), SpecSnapshot (its repository reads one at a     *)
(* time), SpecRatios (one run of _get_ratios), SpecHigh (the recent high   *)
(* over a running clock), SpecBoot (initialize_current_coin),              *)
(* SpecRepository (set_coins, set_current_coin) and SpecTradeLog.          *)
(***************************************************************************)
EXTENDS Integers, Sequences, FiniteSets, TLC

\* ------------------------------------------------------------------ bounds
MaxCycles == 2      \* scout cycles in one behaviour
MaxPoints == 1      \* price points recorded in one behaviour
MaxOps == 3         \* TradeLog operations in one behaviour of SpecTradeLog
MaxAmount == 2      \* amounts handed to TradeLog operations in SpecTradeLog
MaxFaultCycles == 1 \* scout cycles in one behaviour of SpecFaults
MaxSets == 2        \* set_current_coin calls in one behaviour of SpecRepository
MaxHours == 3        \* hours the clock of SpecHigh runs
MaxSyncs == 3       \* set_coins calls in one behaviour of SpecRepository

\* ----------------------------------------------------------- configuration
None == "None"      \* Python None where a coin or a result is expected
NoneN == -1         \* Python None where a number is expected
STABLE == "USDT"    \* the symbol the strategies compare against literally
Coins == {"BUSD", "ETH", "USDT"}
CoinOrder == <<"BUSD", "ETH", "USDT">>      \* the repository's row order
Bridges == {"BUSD", "USDT"}
PriceVals == {80, 100}
Balances == {0, 1}
MinNotionals == {10, 90}
Thresholds == {15, 20}
FeeVals == {1}
SCOUT_MULTIPLIER == 5
TRAILING_STOP_HOURS == 2

VARIABLES
    bridge,                 \* config.BRIDGE.symbol
    stop_loss_enabled,      \* Strategy.stop_loss_enabled
    stop_loss_percentage,   \* Strategy.stop_loss_percentage
    enabled,                \* the coins with Coin.enabled
    scout_multiplier,       \* config.SCOUT_MULTIPLIER
    current_coin,           \* the CurrentCoin table, oldest first
    ratio,                  \* Pair.ratio of every pair
    trades,                 \* the Trade table, oldest first
    coin_values,            \* the CoinValue table
    scout_history,          \* the ScoutHistory table, oldest first
    now,                    \* the clock, in hours
    pc,                     \* where the cycle is
    cyc,                    \* the locals of the cycle in flight and what it did
    stale,                  \* the asset a cycle sold and then failed to buy from
    ncycles,                \* cycles started
    tl, tlog,               \* SpecTradeLog: one Trade and the states it went through
    re,                     \* SpecRatios: one run of _get_ratios, inputs and outcome
    boot,                   \* SpecBoot: one run of initialize_current_coin
    db                      \* SpecRepository: the tables behind the repository calls

vars == <<bridge, stop_loss_enabled, stop_loss_percentage, enabled,
          scout_multiplier, current_coin, ratio, trades, coin_values,
          scout_history, now, pc, cyc, stale, ncycles, tl, tlog, re, boot,
          db>>

config == <<bridge, stop_loss_enabled, stop_loss_percentage, enabled,
            scout_multiplier>>
tlvars == <<tl, tlog, re, boot, db>>

\* ----------------------------------------------------------------- helpers
Last(s) == s[Len(s)]

Count(s, e) == Cardinality({i \in 1..Len(s) : s[i] = e})

Max(S) == CHOOSE x \in S : \A y \in S : y <= x

\* The coins of a set in the repository's row order.
RECURSIVE InOrder(_, _)
InOrder(S, i) ==
    IF i > Len(CoinOrder) THEN <<>>
    ELSE (IF CoinOrder[i] \in S THEN <<CoinOrder[i]>> ELSE <<>>) \o InOrder(S, i + 1)

Pairs == {p \in Coins \X Coins : p[1] # p[2]}

\* -------------------------------------------------- repository (database.py)
\* Database.get_current_coin: the coin of the newest CurrentCoin row.
get_current_coin == IF Len(current_coin) = 0 THEN None ELSE Last(current_coin)

\* Database.set_current_coin: one more CurrentCoin row.
set_current_coin(coin) == Append(current_coin, coin)

\* Database.get_coins(only_enabled=True), in row order.
get_coins == InOrder(enabled, 1)

\* Pair.enabled: both ends enabled.
PairEnabled(p) == p[1] \in enabled /\ p[2] \in enabled

\* Database.get_pairs_from(coin): the enabled pairs leaving coin, as the
\* sequence of their destinations in row order.
get_pairs_from(coin) == InOrder({c \in Coins : c # coin /\ PairEnabled(<<coin, c>>)}, 1)

\* Database.log_scout: the row it adds. Of its columns the model keeps the
\* pair, the price of the coin scouted from and the time; target_ratio and
\* other_coin_price are written and never read back by these sources.
ScoutRow(pair, target_ratio, current_coin_price, other_coin_price) ==
    [pair |-> pair, current_coin_price |-> current_coin_price, datetime |-> now]

\* Database.record_price_point: the row it adds.
ValueRow(coin, price) == [coin |-> coin, usd_price |-> price, datetime |-> now]

\* Database.get_coin_high_price_from_values(coin, hours).
get_coin_high_price_from_values(coin, hours) ==
    LET prices == {r.usd_price : r \in {v \in coin_values :
                       v.coin = coin /\ v.datetime >= now - hours}}
    IN  IF prices = {} THEN NoneN ELSE Max(prices)

\* Database.get_coin_recent_high_price(coin, hours): the pairs leaving coin
\* are not filtered by their enabled flag.
get_coin_recent_high_price(coin, hours) ==
    LET rows == {i \in 1..Len(scout_history) :
                    /\ scout_history[i].pair[1] = coin
                    /\ scout_history[i].datetime >= now - hours
                    /\ scout_history[i].current_coin_price > 0}
    IN  IF rows = {} THEN NoneN
        ELSE Max({scout_history[i].current_coin_price : i \in rows})

\* TradeLog.__init__: a Trade in its first state.
TradeLogInit(from_coin, to_coin, selling) ==
    [from_coin |-> from_coin, to_coin |-> to_coin, selling |-> selling,
     state |-> "CREATED",
     alt_starting_balance |-> NoneN, alt_trade_amount |-> NoneN,
     crypto_starting_balance |-> NoneN, crypto_trade_amount |-> NoneN]

\* TradeLog.set_ordered.
set_ordered(t, alt_starting_balance, crypto_starting_balance, alt_trade_amount) ==
    [t EXCEPT !.alt_starting_balance = alt_starting_balance,
              !.alt_trade_amount = alt_trade_amount,
              !.crypto_starting_balance = crypto_starting_balance,
              !.state = "ORDERED"]

\* TradeLog.set_complete.
set_complete(t, crypto_trade_amount) ==
    [t EXCEPT !.crypto_trade_amount = crypto_trade_amount,
              !.state = "COMPLETE"]

\* ------------------------------------------------------------- the gateway
\* manager.get_ticker_price(coin + bridge): a price, or None when the symbol
\* is not listed; no market lists an asset against itself.
TickerPrices(coin) == IF coin = bridge THEN {NoneN} ELSE PriceVals \cup {NoneN}

\* manager.sell_alt / manager.buy_alt: an order, or None.
OrderResults == {"ok", "fail"}

\* The Trade of a sell leg: created before the order is sent, ORDERED once
\* the sale confirms.
GatewaySell(ts, coin, res) ==
    LET t == TradeLogInit(coin, bridge, TRUE)
    IN  Append(ts, IF res = "ok" THEN set_ordered(t, 1, 1, 1) ELSE t)

\* The Trade of a buy leg: the Trade the sell leg of this cycle left at
\* ORDERED, or a new one passed through the bridge; COMPLETE once the
\* purchase confirms.
GatewayBuy(ts, open, coin, res) ==
    LET cont == open # 0 /\ ts[open].state = "ORDERED"
        i == IF cont THEN open ELSE Len(ts) + 1
        base == IF cont THEN ts
                ELSE Append(ts, set_ordered(TradeLogInit(bridge, coin, FALSE), 1, 1, 1))
    IN  IF res = "ok" THEN [base EXCEPT ![i] = set_complete(base[i], 1)] ELSE base

\* ------------------------------------- the ratio engine (test1_strategy.py)
\* The multiplier of _get_ratios, in tenths: boosted by 1.4 when the coin
\* scouted from is the stable asset.
Cmt(coin) == IF coin = STABLE THEN scout_multiplier * 14 ELSE scout_multiplier * 10

\* A wrong version of Factor: the fee term added in place of subtracted.
FactorFeeAdded(coin, to, transaction_fee) ==
    IF to = STABLE THEN 10000 + 10 ELSE 10000 + transaction_fee * Cmt(coin)

\* 10000 * (1 - transaction_fee * mt): mt is -0.001 / transaction_fee for a
\* pair into the stable asset, the multiplier otherwise.
Factor(coin, to, transaction_fee) ==
    IF to = STABLE THEN 10000 + 10 ELSE 10000 - transaction_fee * Cmt(coin)

\* One pass of the loop of _get_ratios for a pair whose price resolved:
\* coin_opt_coin_ratio * (1 - transaction_fee * mt) - pair.ratio, as the
\* fraction num / (10000 * den).
Score(coin, coin_price, to, opt, fee_in, fee_out) ==
    LET optional_coin_price == IF to = STABLE THEN 1 ELSE opt
        transaction_fee == fee_in + (IF to = STABLE THEN 0 ELSE fee_out)
    IN  [num |-> coin_price * Factor(coin, to, transaction_fee)
                     - ratio[<<coin, to>>] * optional_coin_price,
         den |-> optional_coin_price]

\* Scores over one denominator, 10000 * PriceScale, to compare and add them.
RECURSIVE Gcd(_, _)
Gcd(a, b) == IF b = 0 THEN a ELSE Gcd(b, a % b)

RECURSIVE Lcm(_)
Lcm(S) == IF S = {} THEN 1
          ELSE LET x == CHOOSE y \in S : TRUE
                   l == Lcm(S \ {x})
               IN  (x * l) \div Gcd(x, l)

PriceScale == Lcm(PriceVals)

Scaled(s) == s.num * (PriceScale \div s.den)

\* The price _get_ratios uses for a destination: 1 for the stable asset,
\* the ticker price otherwise.
OptionalPrice(to, op) == IF to = STABLE THEN 1 ELSE op[to]

\* _get_ratios(coin, coin_price): the entries of ratio_dict in insertion
\* order, for the prices op and fees fi, fo the gateway returned. A pair
\* whose price is None is skipped.
RECURSIVE RatiosFrom(_, _, _, _, _, _)
RatiosFrom(dests, coin, coin_price, op, fi, fo) ==
    IF dests = <<>> THEN <<>>
    ELSE LET to == Head(dests)
             rest == RatiosFrom(Tail(dests), coin, coin_price, op, fi, fo)
         IN  IF OptionalPrice(to, op) = NoneN THEN rest
             ELSE <<[to |-> to,
                     score |-> Scaled(Score(coin, coin_price, to, op[to], fi, fo[to]))]>> \o rest

get_ratios(coin, coin_price, op, fi, fo) ==
    RatiosFrom(get_pairs_from(coin), coin, coin_price, op, fi, fo)

\* The rows _get_ratios hands to log_scout, one per pair whose price resolved.
RECURSIVE ScoutRowsFrom(_, _, _, _)
ScoutRowsFrom(dests, coin, coin_price, op) ==
    IF dests = <<>> THEN <<>>
    ELSE LET to == Head(dests)
             rest == ScoutRowsFrom(Tail(dests), coin, coin_price, op)
         IN  IF OptionalPrice(to, op) = NoneN THEN rest
             ELSE <<ScoutRow(<<coin, to>>, ratio[<<coin, to>>], coin_price,
                             OptionalPrice(to, op))>> \o rest

get_ratios_rows(coin, coin_price, op) ==
    ScoutRowsFrom(get_pairs_from(coin), coin, coin_price, op)

\* max(ratio_dict, key=ratio_dict.get) over the positive entries: the first
\* of the highest, None when no entry is positive.
NoBest == [to |-> None, score |-> 0]

RECURSIVE BestOf(_, _)
BestOf(rs, best) ==
    IF rs = <<>> THEN best
    ELSE BestOf(Tail(rs), IF Head(rs).score > best.score THEN Head(rs) ELSE best)

best_pair(rs) == BestOf(rs, NoBest)

\* ------------------------------- scouting from USDT (custom1_strategy.py)
\* The prices one pass can read: one per coin, None for the bridge itself.
PriceMaps == {f \in [Coins -> PriceVals \cup {NoneN}] : \A c \in Coins : f[c] \in TickerPrices(c)}

FeeMaps == [Coins -> FeeVals]

\* sum(positive_ratios) and len(positive_ratios).
RECURSIVE PositiveSum(_)
PositiveSum(rs) ==
    IF rs = <<>> THEN [sum |-> 0, n |-> 0]
    ELSE LET t == PositiveSum(Tail(rs))
         IN  IF Head(rs).score > 0
             THEN [sum |-> t.sum + Head(rs).score, n |-> t.n + 1] ELSE t

\* The loop of _scout_from_usdt over target_coins: best is best_coin with
\* best_potential kept as the fraction sum / n. p1 holds the price read for
\* each target, p2 the prices read inside _get_ratios.
RECURSIVE BestTarget(_, _, _, _, _, _)
BestTarget(targets, p1, p2, fi, fo, best) ==
    IF targets = <<>> THEN best
    ELSE LET coin == Head(targets)
             pos == IF p1[coin] = NoneN THEN [sum |-> 0, n |-> 0]
                    ELSE PositiveSum(get_ratios(coin, p1[coin], p2, fi[coin], fo))
             better == pos.n > 0 /\ pos.sum * best.n > best.sum * pos.n
         IN  BestTarget(Tail(targets), p1, p2, fi, fo,
                        IF better THEN [coin |-> coin, sum |-> pos.sum, n |-> pos.n]
                        ELSE best)

target_coins == SelectSeq(get_coins, LAMBDA c : c # STABLE)

\* The multipliers the calls of _get_ratios in the loop work with: the call
\* for a target is _get_ratios(coin, coin_price), coin being the target.
TargetCmts(targets, p1) ==
    {Cmt(targets[k]) : k \in {j \in 1..Len(targets) : p1[targets[j]] # NoneN}}

best_coin(p1, p2, fi, fo) ==
    BestTarget(target_coins, p1, p2, fi, fo, [coin |-> None, sum |-> 0, n |-> 1]).coin

\* The ScoutHistory rows the loop of _scout_from_usdt adds, in order.
RECURSIVE TargetRows(_, _, _)
TargetRows(targets, p1, p2) ==
    IF targets = <<>> THEN <<>>
    ELSE LET coin == Head(targets)
         IN  (IF p1[coin] = NoneN THEN <<>> ELSE get_ratios_rows(coin, p1[coin], p2))
                 \o TargetRows(Tail(targets), p1, p2)

\* --------------------------------------------------------------- AutoTrader
\* update_trade_threshold(coin, coin_price): the baseline of every pair into
\* coin becomes the price of its source over coin_price; a source whose
\* price is None keeps its baseline.
update_trade_threshold(coin, coin_price, fp) ==
    [p \in Pairs |->
        IF p[2] = coin /\ fp[p[1]] # NoneN
        THEN (10000 * fp[p[1]]) \div coin_price ELSE ratio[p]]

\* ------------------------------------------------------------ initial state
\* Pair.ratio at start: 1 between two assets that are not the stable asset,
\* 70 into the stable asset, 1/100 out of it.
InitRatio ==
    [p \in Pairs |-> IF p[2] = STABLE THEN 70 * 10000
                     ELSE IF p[1] = STABLE THEN 100 ELSE 10000]

\* The locals and the record of a cycle that has not run.
NoCycle ==
    [cur |-> None, price |-> NoneN, rows0 |-> 0, done0 |-> 0,
     events |-> <<>>, sl_events |-> <<>>,
     sl_checked |-> FALSE, lookup |-> FALSE, no_data |-> FALSE, high |-> NoneN,
     exec |-> FALSE, sl_result |-> "none", sl_outcome |-> "none",
     sl_below |-> FALSE,
     rotation |-> FALSE, to |-> None, ttb_worth |-> "none",
     ttb_sell |-> "none", ttb |-> "none",
     usdt_cmt |-> {}, faults |-> {}, raised |-> FALSE, open |-> 0,
     snap |-> {}, targets |-> <<>>, priced |-> {}, compared |-> {}]

NoTrade == TradeLogInit(None, None, FALSE)

\* SpecRatios and SpecBoot: nothing has run.
NoRun == [done |-> FALSE, rows |-> <<>>, scores |-> <<>>, raised |-> FALSE]

NoBoot == [at |-> "off"]

\* SpecRepository: the tables of a new database, and the clock that stamps
\* the rows.
NoTables == [current_coin |-> <<>>, coins |-> {}, pairs |-> <<>>,
             clock |-> 0, calls |-> <<>>, synced |-> <<>>, npairs |-> <<>>,
             looked |-> FALSE, coin |-> None, live |-> NoneN, high |-> NoneN]

InitConfig ==
    /\ bridge \in Bridges
    /\ stop_loss_enabled \in BOOLEAN
    /\ stop_loss_percentage \in Thresholds
    /\ (~stop_loss_enabled => stop_loss_percentage = Max(Thresholds))
    /\ enabled \in {Coins, Coins \ {STABLE}}
    /\ scout_multiplier = SCOUT_MULTIPLIER

Init ==
    /\ InitConfig
    /\ \E c \in enabled : current_coin = <<c>>
    /\ ratio = InitRatio
    /\ trades = <<>>
    /\ coin_values = {}
    /\ scout_history = <<>>
    /\ now = 0
    /\ pc = "idle"
    /\ cyc = NoCycle
    /\ stale = None
    /\ ncycles = 0
    /\ tl = NoTrade
    /\ tlog = <<>>
    /\ re = NoRun
    /\ boot = NoBoot
    /\ db = NoTables

\* ---------------------------------------------------------- the environment
\* Database.record_price_point for the held coin, before the first cycle:
\* the price points the cycles find. Cycles follow each other within the
\* hour: the clock stands still.
RecordPricePoint ==
    /\ pc = "idle"
    /\ ncycles = 0
    /\ Cardinality(coin_values) < MaxPoints
    /\ get_current_coin # STABLE
    /\ \E price \in PriceVals :
           /\ ValueRow(get_current_coin, price) \notin coin_values
           /\ coin_values' = coin_values \cup {ValueRow(get_current_coin, price)}
    /\ UNCHANGED <<config, current_coin, ratio, trades, scout_history, now, pc,
                   cyc, stale, ncycles, tlvars>>

\* ------------------------------------------------- variants of the decisions
\* Wrong versions of the decisions below; each property that rests on a
\* decision fails when the decision is replaced by its variant.
UsdtBoughtAlways(result) == TRUE

TtbBoughtAlways(result) == TRUE

TtbSellNeverFailed(sell_result) == FALSE

StopLossSellNeverFailed(sell_result) == FALSE

TrippedStrict(recent_high_price, current_price) ==
    (recent_high_price - current_price) * 100 > stop_loss_percentage * recent_high_price

PriceNeverMissing(current_coin_price) == FALSE

NeverSkipsRotation(fired) == FALSE

NeverTooSmall(balance, current_price, min_notional) == FALSE

ChecksStopLossAlways == TRUE

\* ----------------------------------------------- the decisions of the cycle
\* scout: `if self.stop_loss_enabled and self._check_trailing_stop_loss(...)`,
\* the flag read first.
ChecksStopLoss == stop_loss_enabled

\* scout: "if current_coin_price is None".
PriceMissing(current_coin_price) == current_coin_price = NoneN

\* scout: "if self.stop_loss_enabled and self._check_trailing_stop_loss(..)"
\* returns before _jump_to_best_coin.
SkipsRotation(fired) == stop_loss_enabled /\ fired

\* _check_trailing_stop_loss: price_drop_percentage >= stop_loss_percentage,
\* for a recent high above 0.
Tripped(recent_high_price, current_price) ==
    (recent_high_price - current_price) * 100 >= stop_loss_percentage * recent_high_price

\* _execute_stop_loss: "if balance <= 0".
NoBalance(balance) == balance <= 0

\* _execute_stop_loss: "if balance * current_price < min_notional".
TooSmall(balance, current_price, min_notional) == balance * current_price < min_notional

\* _execute_stop_loss: "if sell_result is None".
StopLossSellFailed(sell_result) == sell_result = "fail"

\* _execute_stop_loss: "if buy_result".
StopLossBought(buy_result) == buy_result = "ok"

\* transaction_through_bridge: the condition of can_sell = True.
CanSell(from_coin, balance, from_coin_price, min_notional) ==
    from_coin # STABLE /\ balance # 0 /\ balance * from_coin_price > min_notional

\* transaction_through_bridge: "if can_sell and sell_alt(..) is None".
TtbSellFailed(sell_result) == sell_result = "fail"

\* transaction_through_bridge: "if result is not None".
TtbBought(result) == result = "ok"

\* _scout_from_usdt: "if result".
UsdtBought(result) == result = "ok"

\* -------------------------------------------- the cycle (custom1_strategy.py)
Did(e) == Count(cyc.events, e)

Completed(ts) == Cardinality({i \in 1..Len(ts) : ts[i].state = "COMPLETE"})

\* The asset the cycle before sold without buying the next one.
StaleAfter ==
    IF Did("sell_ok") > 0 /\ Did("buy_fail") > 0 /\ Did("set") = 0
    THEN cyc.cur ELSE None

\* Strategy.scout up to the stop-loss check.
Scout ==
    /\ pc = "idle"
    /\ ncycles < MaxCycles
    /\ get_current_coin # None
    /\ ncycles' = ncycles + 1
    /\ stale' = StaleAfter
    /\ LET current_coin_ == get_current_coin
           fresh == [NoCycle EXCEPT !.cur = current_coin_,
                                    !.rows0 = Len(current_coin),
                                    !.done0 = Completed(trades)]
       IN  IF current_coin_ = STABLE
           THEN /\ pc' = "usdt"
                /\ cyc' = fresh
           ELSE \E current_coin_price \in TickerPrices(current_coin_) :
                   /\ cyc' = [fresh EXCEPT !.price = current_coin_price]
                   /\ pc' = IF PriceMissing(current_coin_price) THEN "idle"
                            ELSE IF ChecksStopLoss THEN "check" ELSE "jump"
    /\ UNCHANGED <<config, current_coin, ratio, trades, coin_values,
                   scout_history, now, tlvars>>

\* Strategy._get_recent_high_price: the higher of the two sources, the one
\* that has data, or the live price read again from the gateway.
HasData(coin) ==
    \/ get_coin_high_price_from_values(coin, TRAILING_STOP_HOURS \div 24 + 1) > 0
    \/ get_coin_recent_high_price(coin, TRAILING_STOP_HOURS) > 0

\* A wrong version of get_recent_high_price: the price points win whenever
\* they have data.
HighFromValuesFirst(coin, live) ==
    LET high_price_from_values ==
            get_coin_high_price_from_values(coin, TRAILING_STOP_HOURS \div 24 + 1)
        high_price_from_scout ==
            get_coin_recent_high_price(coin, TRAILING_STOP_HOURS)
    IN  IF high_price_from_values > 0 THEN high_price_from_values
        ELSE IF high_price_from_scout > 0 THEN high_price_from_scout
        ELSE live

get_recent_high_price(coin, live) ==
    LET high_price_from_values ==
            get_coin_high_price_from_values(coin, TRAILING_STOP_HOURS \div 24 + 1)
        high_price_from_scout ==
            get_coin_recent_high_price(coin, TRAILING_STOP_HOURS)
    IN  IF high_price_from_values > 0 /\ high_price_from_scout > 0
        THEN Max({high_price_from_values, high_price_from_scout})
        ELSE IF high_price_from_values > 0 THEN high_price_from_values
        ELSE IF high_price_from_scout > 0 THEN high_price_from_scout
        ELSE live

\* The stop-loss check returned: scout goes on to _jump_to_best_coin unless
\* the check fired.
AfterCheck(fired) == IF SkipsRotation(fired) THEN "idle" ELSE "jump"

\* Strategy._check_trailing_stop_loss up to the call of _execute_stop_loss.
CheckTrailingStopLoss ==
    /\ pc = "check"
    /\ IF cyc.cur = STABLE
       THEN /\ cyc' = [cyc EXCEPT !.sl_checked = TRUE, !.sl_result = "false"]
            /\ pc' = AfterCheck(FALSE)
       ELSE \E live \in TickerPrices(cyc.cur) :
               LET recent_high_price == get_recent_high_price(cyc.cur, live)
                   looked == [cyc EXCEPT !.sl_checked = TRUE, !.lookup = TRUE,
                                         !.no_data = ~HasData(cyc.cur),
                                         !.high = recent_high_price]
               IN  IF recent_high_price # NoneN /\ Tripped(recent_high_price, cyc.price)
                   THEN /\ cyc' = [looked EXCEPT !.exec = TRUE]
                        /\ pc' = "exec"
                   ELSE /\ cyc' = [looked EXCEPT !.sl_result = "false"]
                        /\ pc' = AfterCheck(FALSE)
    /\ UNCHANGED <<config, current_coin, ratio, trades, coin_values,
                   scout_history, now, stale, ncycles, tlvars>>

\* Strategy._execute_stop_loss up to the sell order; sl_below records
\* whether the holding was worth less than min_notional. With a balance and
\* no price, balance * current_price raises and the handler returns False.
ExecuteStopLoss ==
    /\ pc = "exec"
    /\ \E balance \in Balances, current_price \in TickerPrices(cyc.cur),
          min_notional \in MinNotionals :
           LET read == [cyc EXCEPT !.sl_below =
                           \/ balance = 0
                           \/ current_price # NoneN /\ balance * current_price < min_notional]
           IN  IF NoBalance(balance)
               THEN /\ cyc' = [read EXCEPT !.sl_outcome = "no_balance",
                                           !.sl_result = "false"]
                    /\ pc' = AfterCheck(FALSE)
               ELSE IF current_price = NoneN
               THEN /\ cyc' = [read EXCEPT !.sl_outcome = "error",
                                           !.sl_result = "false"]
                    /\ pc' = AfterCheck(FALSE)
               ELSE IF TooSmall(balance, current_price, min_notional)
               THEN /\ cyc' = [read EXCEPT !.sl_outcome = "too_small",
                                           !.sl_result = "false"]
                    /\ pc' = AfterCheck(FALSE)
               ELSE /\ cyc' = read
                    /\ pc' = "sl_sell"
    /\ UNCHANGED <<config, current_coin, ratio, trades, coin_values,
                   scout_history, now, stale, ncycles, tlvars>>

\* What a step of the liquidation path adds to the record of the cycle.
SlDid(c, es) == [c EXCEPT !.events = @ \o es, !.sl_events = @ \o es]

\* Strategy._execute_stop_loss: the sell order and what follows it when the
\* bridge is the stable asset or the stable asset is not among the coins.
StopLossSell ==
    /\ pc = "sl_sell"
    /\ \E sell_result \in OrderResults :
           /\ trades' = GatewaySell(trades, cyc.cur, sell_result)
           /\ IF StopLossSellFailed(sell_result)
              THEN /\ cyc' = [SlDid(cyc, <<"sell_" \o sell_result>>) EXCEPT
                                 !.sl_outcome = "sell_failed", !.sl_result = "false"]
                   /\ pc' = AfterCheck(FALSE)
                   /\ UNCHANGED current_coin
              ELSE IF bridge # STABLE
              THEN /\ UNCHANGED current_coin
                   /\ IF STABLE \in enabled
                      THEN /\ cyc' = [SlDid(cyc, <<"sell_" \o sell_result>>) EXCEPT
                                         !.open = Len(trades')]
                           /\ pc' = "sl_buy"
                      ELSE /\ cyc' = [SlDid(cyc, <<"sell_" \o sell_result>>) EXCEPT
                                         !.sl_outcome = "no_usdt", !.sl_result = "true"]
                           /\ pc' = AfterCheck(TRUE)
              ELSE /\ current_coin' = set_current_coin(bridge)
                   /\ cyc' = [SlDid(cyc, <<"sell_" \o sell_result, "set">>) EXCEPT
                                 !.sl_outcome = "converted", !.sl_result = "true"]
                   /\ pc' = AfterCheck(TRUE)
    /\ UNCHANGED <<config, ratio, coin_values, scout_history, now, stale,
                   ncycles, tlvars>>

\* Strategy._execute_stop_loss: the purchase of the stable asset with a
\* bridge that is not the stable asset.
StopLossBuy ==
    /\ pc = "sl_buy"
    /\ \E buy_result \in OrderResults :
           /\ trades' = GatewayBuy(trades, cyc.open, STABLE, buy_result)
           /\ IF StopLossBought(buy_result)
              THEN /\ current_coin' = set_current_coin(STABLE)
                   /\ cyc' = [SlDid(cyc, <<"buy_" \o buy_result, "set">>) EXCEPT
                                 !.sl_outcome = "converted", !.sl_result = "true"]
              ELSE /\ UNCHANGED current_coin
                   /\ cyc' = [SlDid(cyc, <<"buy_" \o buy_result>>) EXCEPT
                                 !.sl_outcome = "buy_failed", !.sl_result = "true"]
    /\ pc' = AfterCheck(TRUE)
    /\ UNCHANGED <<config, ratio, coin_values, scout_history, now, stale,
                   ncycles, tlvars>>

\* AutoTrader._jump_to_best_coin: the ratios of the held coin, and the
\* rotation to the pair with the highest positive score.
JumpToBestCoin ==
    /\ pc = "jump"
    /\ \E op \in PriceMaps, fi \in FeeVals, fo \in FeeMaps :
           LET best == best_pair(get_ratios(cyc.cur, cyc.price, op, fi, fo))
           IN  /\ scout_history' =
                      scout_history \o get_ratios_rows(cyc.cur, cyc.price, op)
               /\ cyc' = [cyc EXCEPT !.rotation = TRUE, !.to = best.to]
               /\ pc' = IF best.to = None THEN "idle" ELSE "ttb"
    /\ UNCHANGED <<config, current_coin, ratio, trades, coin_values, now,
                   stale, ncycles, tlvars>>

\* Strategy.transaction_through_bridge up to the sell order. With a balance
\* and no price, balance * from_coin_price raises. ttb_worth records whether
\* the balance, valued at the price, exceeded min_notional.
TransactionThroughBridge ==
    /\ pc = "ttb"
    /\ \E balance \in Balances, from_coin_price \in TickerPrices(cyc.cur),
          min_notional \in MinNotionals :
           LET read == [cyc EXCEPT !.ttb_worth =
                           IF balance = 0 THEN "no"
                           ELSE IF from_coin_price = NoneN THEN "unpriced"
                           ELSE IF balance * from_coin_price > min_notional
                                THEN "yes" ELSE "no"]
           IN  IF cyc.cur # STABLE /\ balance # 0 /\ from_coin_price = NoneN
               THEN /\ cyc' = [read EXCEPT !.ttb = "raised", !.raised = TRUE]
                    /\ pc' = "idle"
               ELSE IF CanSell(cyc.cur, balance, from_coin_price, min_notional)
               THEN /\ cyc' = read
                    /\ pc' = "ttb_sell"
               ELSE /\ cyc' = [read EXCEPT !.ttb_sell = "skipped"]
                    /\ pc' = "ttb_buy"
    /\ UNCHANGED <<config, current_coin, ratio, trades, coin_values,
                   scout_history, now, stale, ncycles, tlvars>>

\* Strategy.transaction_through_bridge: the sell order.
TtbSell ==
    /\ pc = "ttb_sell"
    /\ \E sell_result \in OrderResults :
           /\ trades' = GatewaySell(trades, cyc.cur, sell_result)
           /\ IF TtbSellFailed(sell_result)
              THEN /\ cyc' = [cyc EXCEPT !.events = Append(@, "sell_" \o sell_result),
                                         !.ttb_sell = sell_result,
                                         !.ttb = "none_returned"]
                   /\ pc' = "idle"
              ELSE /\ cyc' = [cyc EXCEPT !.events = Append(@, "sell_" \o sell_result),
                                         !.ttb_sell = sell_result,
                                         !.open = Len(trades')]
                   /\ pc' = "ttb_buy"
    /\ UNCHANGED <<config, current_coin, ratio, coin_values, scout_history,
                   now, stale, ncycles, tlvars>>

\* Strategy.transaction_through_bridge from the buy order on. The result of
\* a skipped purchase is a dict, and reading its price attribute raises
\* after the holding pointer is set.
TtbBuy ==
    /\ pc = "ttb_buy"
    /\ IF cyc.to # STABLE
       THEN \E result \in OrderResults, price \in PriceVals, fp \in PriceMaps :
               /\ trades' = GatewayBuy(trades, cyc.open, cyc.to, result)
               /\ IF TtbBought(result)
                  THEN /\ current_coin' = set_current_coin(cyc.to)
                       /\ ratio' = update_trade_threshold(cyc.to, price, fp)
                       /\ cyc' = [cyc EXCEPT
                                    !.events = @ \o <<"buy_" \o result, "set", "threshold">>,
                                    !.ttb = "result_returned"]
                  ELSE /\ UNCHANGED <<current_coin, ratio>>
                       /\ cyc' = [cyc EXCEPT !.events = Append(@, "buy_" \o result),
                                             !.ttb = "none_returned"]
       ELSE /\ current_coin' = set_current_coin(cyc.to)
            /\ cyc' = [cyc EXCEPT !.events = Append(@, "set"),
                                  !.ttb = "raised", !.raised = TRUE]
            /\ UNCHANGED <<ratio, trades>>
    /\ pc' = "idle"
    /\ UNCHANGED <<config, coin_values, scout_history, now, stale, ncycles,
                   tlvars>>

\* Strategy._scout_from_usdt up to the buy order.
ScoutFromUsdt ==
    /\ pc = "usdt"
    /\ IF target_coins = <<>>
       THEN /\ pc' = "idle"
            /\ UNCHANGED <<cyc, scout_history>>
       ELSE \E p1 \in PriceMaps, p2 \in PriceMaps, fi \in FeeMaps, fo \in FeeMaps :
               LET best == best_coin(p1, p2, fi, fo)
               IN  /\ scout_history' = scout_history \o TargetRows(target_coins, p1, p2)
                   /\ cyc' = [cyc EXCEPT !.to = best,
                                         !.usdt_cmt = TargetCmts(target_coins, p1)]
                   /\ pc' = IF best = None THEN "idle" ELSE "usdt_buy"
    /\ UNCHANGED <<config, current_coin, ratio, trades, coin_values, now,
                   stale, ncycles, tlvars>>

\* Strategy._scout_from_usdt: the buy order.
UsdtBuy ==
    /\ pc = "usdt_buy"
    /\ \E result \in OrderResults :
           /\ trades' = GatewayBuy(trades, 0, cyc.to, result)
           /\ IF UsdtBought(result)
              THEN /\ current_coin' = set_current_coin(cyc.to)
                   /\ cyc' = [cyc EXCEPT !.events = @ \o <<"buy_" \o result, "set">>]
              ELSE /\ UNCHANGED current_coin
                   /\ cyc' = [cyc EXCEPT !.events = Append(@, "buy_" \o result)]
    /\ pc' = "idle"
    /\ UNCHANGED <<config, ratio, coin_values, scout_history, now, stale,
                   ncycles, tlvars>>

Next ==
    \/ RecordPricePoint
    \/ Scout
    \/ CheckTrailingStopLoss
    \/ ExecuteStopLoss
    \/ StopLossSell
    \/ StopLossBuy
    \/ JumpToBestCoin
    \/ TransactionThroughBridge
    \/ TtbSell
    \/ TtbBuy
    \/ ScoutFromUsdt
    \/ UsdtBuy

Spec == Init /\ [][Next]_vars

\* ------------------------------------------- the TradeLog API (database.py)
\* Database.start_trade_log: one Trade, whose states tlog records.
StartTradeLog ==
    /\ tlog = <<>>
    /\ \E p \in Pairs, selling \in BOOLEAN :
           tl' = TradeLogInit(p[1], p[2], selling)
    /\ tlog' = <<"CREATED">>
    /\ UNCHANGED <<config, current_coin, ratio, trades, coin_values,
                   scout_history, now, pc, cyc, stale, ncycles, re, boot, db>>

\* TradeLog.set_ordered, called on the Trade in whatever state it is in.
TlSetOrdered ==
    /\ tlog # <<>>
    /\ Len(tlog) <= MaxOps
    /\ \E asb \in 1..MaxAmount, csb \in 1..MaxAmount, ata \in 1..MaxAmount :
           tl' = set_ordered(tl, asb, csb, ata)
    /\ tlog' = Append(tlog, tl'.state)
    /\ UNCHANGED <<config, current_coin, ratio, trades, coin_values,
                   scout_history, now, pc, cyc, stale, ncycles, re, boot, db>>

\* TradeLog.set_complete, called on the Trade in whatever state it is in.
TlSetComplete ==
    /\ tlog # <<>>
    /\ Len(tlog) <= MaxOps
    /\ \E cta \in 1..MaxAmount : tl' = set_complete(tl, cta)
    /\ tlog' = Append(tlog, tl'.state)
    /\ UNCHANGED <<config, current_coin, ratio, trades, coin_values,
                   scout_history, now, pc, cyc, stale, ncycles, re, boot, db>>

NextTradeLog ==
    \/ StartTradeLog
    \/ TlSetOrdered
    \/ TlSetComplete

SpecTradeLog == Init /\ [][NextTradeLog]_vars

\* ------------------- scouting from USDT with calls that raise (custom1)
\* What a call made for one target of the loop can do: return, or raise
\* from the price lookup, or raise from inside _get_ratios (a price, a fee,
\* log_scout, the division).
TargetFaults == {"none", "get_ticker_price", "_get_ratios"}

Min(a, b) == IF a < b THEN a ELSE b

\* A wrong version of Propagates: only the try inside the loop catches.
PropagatesOutsideLoop(call) == call \notin {"get_ticker_price", "_get_ratios"}

\* Whether an error raised by a call of _scout_from_usdt leaves the
\* function: the body is one try / except Exception, and the body of the
\* loop another.
Propagates(call) == FALSE

\* The calls for the targets that raised: a target whose price is None is
\* passed over before _get_ratios is called.
RaisedFor(targets, p1, tf) ==
    {tf[targets[k]] : k \in {j \in 1..Len(targets) :
        /\ tf[targets[j]] # "none"
        /\ (tf[targets[j]] = "_get_ratios" => p1[targets[j]] # NoneN)}}

\* The prices the loop goes on with: a target whose evaluation raised is
\* left like one without a price, by the continue of the handler.
Evaluated(p1, tf) == [c \in Coins |-> IF tf[c] = "none" THEN p1[c] ELSE NoneN]

\* The ScoutHistory rows of the loop: a target whose _get_ratios raised
\* leaves the rows logged before the error, at most cut of them.
RECURSIVE FaultyRows(_, _, _, _, _)
FaultyRows(targets, p1, p2, tf, cut) ==
    IF targets = <<>> THEN <<>>
    ELSE LET coin == Head(targets)
             rows == IF p1[coin] = NoneN \/ tf[coin] = "get_ticker_price" THEN <<>>
                     ELSE get_ratios_rows(coin, p1[coin], p2)
         IN  (IF tf[coin] = "_get_ratios" THEN SubSeq(rows, 1, Min(cut, Len(rows)))
              ELSE rows) \o FaultyRows(Tail(targets), p1, p2, tf, cut)

\* The cycles of this specification start with USDT held.
InitFaults == Init /\ get_current_coin = STABLE

ScoutStable == ncycles < MaxFaultCycles /\ get_current_coin = STABLE /\ Scout

\* Strategy.scout when db.get_current_coin raises: the call stands before
\* the branch on the held asset, outside every try.
ScoutReadRaises ==
    /\ pc = "idle"
    /\ ncycles < MaxFaultCycles
    /\ ncycles' = ncycles + 1
    /\ stale' = StaleAfter
    /\ cyc' = [NoCycle EXCEPT !.rows0 = Len(current_coin),
                              !.done0 = Completed(trades),
                              !.faults = {"get_current_coin"}, !.raised = TRUE]
    /\ UNCHANGED <<config, current_coin, ratio, trades, coin_values,
                   scout_history, now, pc, tlvars>>

\* Strategy._scout_from_usdt up to the buy order, every call free to raise.
ScoutFromUsdtFaulty ==
    /\ pc = "usdt"
    /\ \/ /\ cyc' = [cyc EXCEPT !.faults = {"get_coins"},
                                 !.raised = Propagates("get_coins")]
          /\ pc' = "idle"
          /\ UNCHANGED scout_history
       \/ /\ target_coins = <<>>
          /\ pc' = "idle"
          /\ UNCHANGED <<cyc, scout_history>>
       \/ /\ target_coins # <<>>
          /\ \E p1 \in PriceMaps, p2 \in PriceMaps, fi \in FeeMaps, fo \in FeeMaps,
                tg \in [{c \in Coins : c # STABLE} -> TargetFaults], cut \in 0..1 :
                 LET tf == [c \in Coins |-> IF c = STABLE THEN "none" ELSE tg[c]]
                     best == best_coin(Evaluated(p1, tf), p2, fi, fo)
                     faults == RaisedFor(target_coins, p1, tf)
                     out == \E call \in faults : Propagates(call)
                 IN  /\ scout_history' = scout_history \o
                            FaultyRows(target_coins, p1, p2, tf, cut)
                     /\ cyc' = [cyc EXCEPT !.to = IF out THEN None ELSE best,
                                           !.faults = faults, !.raised = out,
                                           !.usdt_cmt = TargetCmts(target_coins, p1)]
                     /\ pc' = IF out \/ best = None THEN "idle" ELSE "usdt_buy"
    /\ UNCHANGED <<config, current_coin, ratio, trades, coin_values, now,
                   stale, ncycles, tlvars>>

\* Strategy._scout_from_usdt: the buy order and the pointer, each free to
\* raise.
UsdtBuyFaulty ==
    /\ pc = "usdt_buy"
    /\ \/ /\ cyc' = [cyc EXCEPT !.events = Append(@, "buy_raised"),
                                 !.faults = @ \cup {"buy_alt"},
                                 !.raised = Propagates("buy_alt")]
          /\ UNCHANGED <<trades, current_coin>>
       \/ /\ trades' = GatewayBuy(trades, 0, cyc.to, "ok")
          /\ UsdtBought("ok")
          /\ cyc' = [cyc EXCEPT !.events = Append(@, "buy_ok"),
                                 !.faults = @ \cup {"set_current_coin"},
                                 !.raised = Propagates("set_current_coin")]
          /\ UNCHANGED current_coin
       \/ \E result \in OrderResults :
              /\ trades' = GatewayBuy(trades, 0, cyc.to, result)
              /\ IF UsdtBought(result)
                 THEN /\ current_coin' = set_current_coin(cyc.to)
                      /\ cyc' = [cyc EXCEPT !.events = @ \o <<"buy_" \o result, "set">>]
                 ELSE /\ UNCHANGED current_coin
                      /\ cyc' = [cyc EXCEPT !.events = Append(@, "buy_" \o result)]
    /\ pc' = "idle"
    /\ UNCHANGED <<config, ratio, coin_values, scout_history, now, stale,
                   ncycles, tlvars>>

NextFaults ==
    \/ ScoutStable
    \/ ScoutReadRaises
    \/ ScoutFromUsdtFaulty
    \/ UsdtBuyFaulty

SpecFaults == InitFaults /\ [][NextFaults]_vars

\* -------------------------------- one run of _get_ratios (test1_strategy.py)
\* What one run can be given: the fees the gateway returns in thousandths,
\* zero included, the price of the coin scouted from, the prices of the
\* destinations, the baseline of the pairs in 1/10000, and the multiplier.
RunFees == {0, 1}
RunPrices == {100, 2000}
RunTargetPrices == {100, 40000}
RunBaselines == {500, 10000}
Multipliers == {5, 10}

\* The orders in which a loop can visit the members of S.
Orders(S) ==
    {s \in [1..Cardinality(S) -> S] : \A i, j \in DOMAIN s : s[i] = s[j] => i = j}

\* mt = -0.001 / transaction_fee with a fee of zero: ZeroDivisionError.
DividesByZero(to, transaction_fee) == to = STABLE /\ transaction_fee = 0

\* One pass of the loop of _get_ratios, pair (coin, to): acc holds the rows
\* handed to log_scout and the entries of ratio_dict so far. A destination
\* whose price is None is passed over; the row is logged before the score
\* is computed, and the division raises out of the loop.
RatioPass(acc, coin, coin_price, to, op, fi, fo) ==
    IF OptionalPrice(to, op) = NoneN THEN acc
    ELSE LET row == ScoutRow(<<coin, to>>, ratio[<<coin, to>>], coin_price,
                             OptionalPrice(to, op))
             transaction_fee == fi + (IF to = STABLE THEN 0 ELSE fo[to])
         IN  IF DividesByZero(to, transaction_fee)
             THEN [acc EXCEPT !.rows = Append(@, row), !.raised = TRUE]
             ELSE [acc EXCEPT !.rows = Append(@, row),
                              !.scores = Append(@, [to |-> to,
                                  score |-> Score(coin, coin_price, to, op[to], fi, fo[to])])]

\* The whole loop over dests, stopping at the pass that raises.
RECURSIVE RatioLoop(_, _, _, _, _, _, _)
RatioLoop(acc, dests, coin, coin_price, op, fi, fo) ==
    IF dests = <<>> \/ acc.raised THEN acc
    ELSE RatioLoop(RatioPass(acc, coin, coin_price, Head(dests), op, fi, fo),
                   Tail(dests), coin, coin_price, op, fi, fo)

NoRatios == [rows |-> <<>>, scores |-> <<>>, raised |-> FALSE]

\* The state before a run: the configuration, the pairs the repository
\* returns in some order, and what the gateway will answer.
InitRatios ==
    /\ bridge \in Bridges
    /\ stop_loss_enabled = FALSE
    /\ stop_loss_percentage = Max(Thresholds)
    /\ enabled \in SUBSET Coins
    /\ scout_multiplier \in Multipliers
    /\ current_coin = <<>>
    /\ \E r \in RunBaselines : ratio = [p \in Pairs |-> r]
    /\ trades = <<>>
    /\ coin_values = {}
    /\ scout_history = <<>>
    /\ now = 0
    /\ pc = "idle"
    /\ cyc = NoCycle
    /\ stale = None
    /\ ncycles = 0
    /\ tl = NoTrade
    /\ tlog = <<>>
    /\ boot = NoBoot
    /\ db = NoTables
    /\ \E coin \in enabled, coin_price \in RunPrices, fi \in RunFees,
          fo \in [Coins -> RunFees],
          op \in [Coins -> RunTargetPrices \cup {NoneN}] :
           /\ op[bridge] = NoneN
           /\ \E dests \in Orders({c \in enabled : c # coin}) :
                  re = [coin |-> coin, coin_price |-> coin_price, dests |-> dests,
                        op |-> op, fi |-> fi, fo |-> fo, i |-> 1, done |-> FALSE,
                        rows |-> <<>>, scores |-> <<>>, raised |-> FALSE]

\* The body of the loop, once.
GetRatiosPass ==
    /\ ~re.done
    /\ re.i <= Len(re.dests)
    /\ LET acc == RatioPass([rows |-> re.rows, scores |-> re.scores, raised |-> FALSE],
                            re.coin, re.coin_price, re.dests[re.i], re.op, re.fi, re.fo)
       IN  /\ re' = [re EXCEPT !.i = @ + 1, !.rows = acc.rows, !.scores = acc.scores,
                               !.raised = acc.raised, !.done = acc.raised]
           /\ scout_history' = scout_history \o SubSeq(acc.rows, Len(re.rows) + 1, Len(acc.rows))
    /\ UNCHANGED <<config, current_coin, ratio, trades, coin_values, now, pc,
                   cyc, stale, ncycles, tl, tlog, boot, db>>

\* return ratio_dict.
GetRatiosReturn ==
    /\ ~re.done
    /\ re.i > Len(re.dests)
    /\ re' = [re EXCEPT !.done = TRUE]
    /\ UNCHANGED <<config, current_coin, ratio, trades, coin_values,
                   scout_history, now, pc, cyc, stale, ncycles, tl, tlog, boot, db>>

NextRatios ==
    \/ GetRatiosPass
    \/ GetRatiosReturn

SpecRatios == InitRatios /\ [][NextRatios]_vars

\* ------------------ Strategy.initialize_current_coin (custom1, test1)
\* config.CURRENT_COIN_SYMBOL: empty, a coin, or a symbol no list has.
Symbols == Coins \cup {"", "XYZ"}

\* A wrong version of Unsupported: every symbol passes.
UnsupportedNever(current_coin_symbol, supported) == FALSE

\* current_coin_symbol not in self.config.SUPPORTED_COIN_LIST.
Unsupported(current_coin_symbol, supported) == current_coin_symbol \notin supported

\* The state before initialize_current_coin: the holding rows a backup
\* left, none or one, the configured symbol and the supported list.
InitBoot ==
    /\ bridge \in Bridges
    /\ stop_loss_enabled = FALSE
    /\ stop_loss_percentage = Max(Thresholds)
    /\ enabled = Coins
    /\ scout_multiplier = SCOUT_MULTIPLIER
    /\ current_coin \in {<<>>} \cup {<<c>> : c \in Coins}
    /\ ratio = InitRatio
    /\ trades = <<>>
    /\ coin_values = {}
    /\ scout_history = <<>>
    /\ now = 0
    /\ pc = "idle"
    /\ cyc = NoCycle
    /\ stale = None
    /\ ncycles = 0
    /\ tl = NoTrade
    /\ tlog = <<>>
    /\ re = NoRun
    /\ db = NoTables
    /\ \E symbol \in Symbols, supported \in (SUBSET Coins) \ {{}} :
           boot = [at |-> "start", prior |-> get_current_coin, symbol |-> symbol,
                   supported |-> supported, chosen |-> None, orders |-> 0]

\* if self.db.get_current_coin() is None: the configured symbol, or a
\* random member of the supported list when it is empty.
BootChoose ==
    /\ boot.at = "start"
    /\ IF get_current_coin # None
       THEN boot' = [boot EXCEPT !.at = "done"]
       ELSE \E chosen \in (IF boot.symbol = "" THEN boot.supported ELSE {boot.symbol}) :
               boot' = [boot EXCEPT !.at = "chosen", !.chosen = chosen]
    /\ UNCHANGED <<config, current_coin, ratio, trades, coin_values,
                   scout_history, now, pc, cyc, stale, ncycles, tl, tlog, re, db>>

\* sys.exit for a symbol that is not supported, set_current_coin otherwise.
BootSet ==
    /\ boot.at = "chosen"
    /\ IF Unsupported(boot.chosen, boot.supported)
       THEN /\ boot' = [boot EXCEPT !.at = "exit"]
            /\ UNCHANGED current_coin
       ELSE /\ boot' = [boot EXCEPT !.at = "set"]
            /\ current_coin' = set_current_coin(boot.chosen)
    /\ UNCHANGED <<config, ratio, trades, coin_values, scout_history, now, pc,
                   cyc, stale, ncycles, tl, tlog, re, db>>

\* The coin picked at random is bought; the result of buy_alt is not read.
BootBuy ==
    /\ boot.at = "set"
    /\ IF boot.symbol = ""
       THEN \E result \in OrderResults :
               /\ trades' = GatewayBuy(trades, 0, get_current_coin, result)
               /\ boot' = [boot EXCEPT !.at = "done", !.orders = @ + 1]
       ELSE /\ boot' = [boot EXCEPT !.at = "done"]
            /\ UNCHANGED trades
    /\ UNCHANGED <<config, current_coin, ratio, coin_values, scout_history,
                   now, pc, cyc, stale, ncycles, tl, tlog, re, db>>

NextBoot ==
    \/ BootChoose
    \/ BootSet
    \/ BootBuy

SpecBoot == InitBoot /\ [][NextBoot]_vars

\* --------------------------------- the repository by itself (database.py)
\* CurrentCoin(coin): the row, stamped with the time of its creation.
CurrentCoinRow(coin, datetime) == [coin |-> coin, datetime |-> datetime]

\* A wrong version of LatestRow: the oldest row.
OldestRow(rows) ==
    IF rows = <<>> THEN None
    ELSE LET k == CHOOSE k \in 1..Len(rows) :
                      \A j \in 1..Len(rows) : rows[j].datetime >= rows[k].datetime
         IN  rows[k].coin

\* session.query(CurrentCoin).order_by(CurrentCoin.datetime.desc()).first():
\* the coin of the row with the latest stamp, None for an empty table.
LatestRow(rows) ==
    IF rows = <<>> THEN None
    ELSE LET k == CHOOSE k \in 1..Len(rows) :
                      \A j \in 1..Len(rows) : rows[j].datetime <= rows[k].datetime
         IN  rows[k].coin

\* Database.set_current_coin(coin) for a Coin: session.add(CurrentCoin(coin)).
\* The clock has moved on since the row before was stamped.
SetCurrentCoin ==
    /\ Len(db.calls) < MaxSets
    /\ \E coin \in Coins, later \in 1..2 :
           db' = [db EXCEPT !.clock = @ + later,
                            !.current_coin =
                                Append(@, CurrentCoinRow(coin, db.clock + later)),
                            !.calls = Append(@, coin)]
    /\ UNCHANGED <<config, current_coin, ratio, trades, coin_values,
                   scout_history, now, pc, cyc, stale, ncycles, tl, tlog, re, boot>>

\* A wrong version of DisabledBySync: a dropped coin stays enabled.
NeverDisabledBySync(coin, symbols) == FALSE

\* First loop of set_coins: coin.symbol not in symbols.
DisabledBySync(coin, symbols) == coin.symbol \notin symbols

\* A wrong version of PairMissing: a Pair is added whether or not one exists.
PairAlwaysMissing(pairs, from_coin, to_coin) == TRUE

\* Third loop of set_coins: no Pair from from_coin to to_coin exists.
PairMissing(pairs, from_coin, to_coin) ==
    \A k \in 1..Len(pairs) : pairs[k] # <<from_coin, to_coin>>

\* The Coin table after the first session of set_coins(symbols): coins
\* dropped from the list disabled, coins of the list enabled, new ones
\* added.
SyncedCoins(coins, symbols) ==
    {[symbol |-> c.symbol, enabled |-> ~DisabledBySync(c, symbols)] : c \in coins}
        \cup {[symbol |-> sym, enabled |-> TRUE] :
                 sym \in {y \in symbols : \A c \in coins : c.symbol # y}}

\* The Pair table after the second session: for every two different
\* enabled coins, in the order of the Coin table, a Pair is added when none
\* exists.
RECURSIVE SyncedPairs(_, _)
SyncedPairs(pairs, todo) ==
    IF todo = <<>> THEN pairs
    ELSE SyncedPairs(IF PairMissing(pairs, Head(todo)[1], Head(todo)[2])
                     THEN Append(pairs, Head(todo)) ELSE pairs,
                     Tail(todo))

\* The ordered pairs of different members of S, in the order of the tables.
PairsOf(S) ==
    LET from == InOrder(S, 1)
        n == Len(from)
    IN  SelectSeq([k \in 1..(n * n) |->
                      <<from[((k - 1) \div n) + 1], from[((k - 1) % n) + 1]>>],
                  LAMBDA p : p[1] # p[2])

\* Database.set_coins(symbols).
SetCoins ==
    /\ Len(db.synced) < MaxSyncs
    /\ \E symbols \in SUBSET Coins :
           LET coins == SyncedCoins(db.coins, symbols)
               on == {c.symbol : c \in {x \in coins : x.enabled}}
               pairs == SyncedPairs(db.pairs, PairsOf(on))
           IN  db' = [db EXCEPT !.coins = coins,
                                !.pairs = pairs,
                                !.synced = Append(@, symbols),
                                !.npairs = Append(@, Len(pairs))]
    /\ UNCHANGED <<config, current_coin, ratio, trades, coin_values,
                   scout_history, now, pc, cyc, stale, ncycles, tl, tlog, re, boot>>

NextRepository ==
    \/ SetCurrentCoin
    \/ SetCoins

\* A new database, under one configuration.
InitRepository ==
    /\ Init
    /\ bridge = STABLE
    /\ ~stop_loss_enabled
    /\ enabled = Coins
    /\ current_coin = <<STABLE>>

SpecRepository == InitRepository /\ [][NextRepository]_vars

\* ------------- the repository reads of _scout_from_usdt, one at a time
\* db.get_coins(only_enabled=True), the first read of the cycle: the
\* targets are kept in a local list; snap records what was enabled then.
SnapGetCoins ==
    /\ pc = "usdt"
    /\ cyc' = [cyc EXCEPT !.snap = enabled, !.targets = target_coins]
    /\ pc' = "usdt_loop"
    /\ UNCHANGED <<config, current_coin, ratio, trades, coin_values,
                   scout_history, now, stale, ncycles, tlvars>>

\* One pass of the loop: the price of the target, then _get_ratios, which
\* reads db.get_pairs_from(coin) at that moment and logs a row for every
\* pair whose price resolved.
SnapEvaluate ==
    /\ pc = "usdt_loop"
    /\ cyc.targets # <<>>
    /\ LET coin == Head(cyc.targets)
       IN  \E coin_price \in TickerPrices(coin), p2 \in PriceMaps :
               /\ scout_history' = scout_history \o
                      (IF coin_price = NoneN THEN <<>>
                       ELSE get_ratios_rows(coin, coin_price, p2))
               /\ cyc' = [cyc EXCEPT
                             !.targets = Tail(@),
                             !.priced = IF coin_price = NoneN THEN @ ELSE @ \cup {coin},
                             !.compared = IF coin_price = NoneN THEN @
                                          ELSE @ \cup {<<coin, get_pairs_from(coin)[k]>> :
                                                   k \in 1..Len(get_pairs_from(coin))}]
    /\ pc' = "usdt_loop"
    /\ UNCHANGED <<config, current_coin, ratio, trades, coin_values, now,
                   stale, ncycles, tlvars>>

\* The end of the loop; the choice and the buy are those of ScoutFromUsdt.
SnapDone ==
    /\ pc = "usdt_loop"
    /\ cyc.targets = <<>>
    /\ pc' = "idle"
    /\ UNCHANGED <<config, current_coin, ratio, trades, coin_values,
                   scout_history, now, cyc, stale, ncycles, tlvars>>

\* Database.set_coins called by another process while the cycle runs: the
\* enabled flags of the Coin rows change.
SetCoinsMeanwhile ==
    /\ Len(db.synced) < MaxSyncs
    /\ \E symbols \in SUBSET Coins :
           /\ symbols # enabled
           /\ enabled' = symbols
           /\ db' = [db EXCEPT !.synced = Append(@, symbols)]
    /\ UNCHANGED <<bridge, stop_loss_enabled, stop_loss_percentage,
                   scout_multiplier, current_coin, ratio, trades, coin_values,
                   scout_history, now, pc, cyc, stale, ncycles, tl, tlog, re, boot>>

NextSnapshot ==
    \/ ScoutStable
    \/ SnapGetCoins
    \/ SnapEvaluate
    \/ SnapDone
    \/ SetCoinsMeanwhile

SpecSnapshot == InitFaults /\ [][NextSnapshot]_vars

\* ------------------- the recent high over a running clock (custom1, db)
\* One coin held, nothing recorded yet.
InitHigh ==
    /\ Init
    /\ bridge = STABLE
    /\ ~stop_loss_enabled
    /\ enabled = Coins
    /\ current_coin = <<"ETH">>

\* An hour passes.
Tick ==
    /\ now < MaxHours
    /\ ~db.looked
    /\ now' = now + 1
    /\ UNCHANGED <<config, current_coin, ratio, trades, coin_values,
                   scout_history, pc, cyc, stale, ncycles, tlvars>>

\* Database.record_price_point(coin, price) at the present hour.
RecordAtHour ==
    /\ ~db.looked
    /\ Cardinality(coin_values) < MaxPoints
    /\ \E coin \in Coins \ {STABLE}, price \in PriceVals :
           coin_values' = coin_values \cup {ValueRow(coin, price)}
    /\ UNCHANGED <<config, current_coin, ratio, trades, scout_history, now, pc,
                   cyc, stale, ncycles, tlvars>>

\* Database.log_scout for a pair at the present hour.
LogScoutAtHour ==
    /\ ~db.looked
    /\ Len(scout_history) < MaxPoints
    /\ \E p \in Pairs, price \in PriceVals, other \in PriceVals :
           /\ p[1] # STABLE
           /\ scout_history' = Append(scout_history, ScoutRow(p, ratio[p], price, other))
    /\ UNCHANGED <<config, current_coin, ratio, trades, coin_values, now, pc,
                   cyc, stale, ncycles, tlvars>>

\* Strategy._get_recent_high_price(current_coin) for the held coin.
LookupHigh ==
    /\ ~db.looked
    /\ \E live \in TickerPrices(get_current_coin) :
           db' = [db EXCEPT !.looked = TRUE, !.coin = get_current_coin,
                            !.live = live,
                            !.high = get_recent_high_price(get_current_coin, live)]
    /\ UNCHANGED <<config, current_coin, ratio, trades, coin_values,
                   scout_history, now, pc, cyc, stale, ncycles, tl, tlog, re, boot>>

NextHigh ==
    \/ Tick
    \/ RecordAtHour
    \/ LogScoutAtHour
    \/ LookupHigh

SpecHigh == InitHigh /\ [][NextHigh]_vars

\* ================================================================ properties
\* How many times the cycle set the holding pointer, and how many Trades it
\* brought to COMPLETE.
Advances == Len(current_coin) - cyc.rows0

CompletedInCycle == Completed(trades) - cyc.done0

InCycle == cyc.cur # None

Sells == Did("sell_ok") + Did("sell_fail")

Buys == Did("buy_ok") + Did("buy_fail")

\* C1 (as stated): in every cycle the holding pointer is unchanged or set
\* exactly once, and every change is preceded in the cycle by exactly one
\* Trade reaching COMPLETE.
C1_AsStated ==
    InCycle => /\ Advances \in {0, 1}
               /\ (Advances = 1 => CompletedInCycle = 1)

\* C1 (amended): in every cycle the holding pointer is unchanged or set
\* exactly once and at most one Trade reaches COMPLETE; a Trade reaches
\* COMPLETE exactly when a purchase confirms, and the pointer is then set; a
\* change of the pointer without a purchase order is a change to the stable
\* asset (liquidation with the stable asset as bridge, or rotation into the
\* stable asset), with no Trade of the cycle at COMPLETE.
C1_PointerAndTrade ==
    InCycle => /\ Advances \in {0, 1}
               /\ Advances = Did("set")
               /\ CompletedInCycle = Did("buy_ok")
               /\ CompletedInCycle <= 1
               /\ (CompletedInCycle = 1 => Advances = 1)
               /\ (Advances = 1 /\ CompletedInCycle = 0 =>
                      Last(current_coin) = STABLE /\ Buys = 0)

C1_Witness ==
    /\ cyc.ttb = "result_returned"
    /\ Advances = 1
    /\ CompletedInCycle = 1
    /\ Last(current_coin) # STABLE

\* C2: when the sell leg succeeds and the buy leg fails, the holding pointer
\* still names the old asset, the Trade of the sell leg stays at ORDERED
\* with what the sale wrote, the cycle is over without an exception, and
\* the next cycle starts from that same pointer.
C2_BuyLegFails ==
    /\ (Did("sell_ok") > 0 /\ Did("buy_fail") > 0) =>
           /\ Advances = 0
           /\ get_current_coin = cyc.cur
           /\ trades[cyc.open] = set_ordered(TradeLogInit(cyc.cur, bridge, TRUE), 1, 1, 1)
           /\ CompletedInCycle = 0
           /\ Buys = 1
           /\ pc = "idle"
           /\ ~cyc.raised
    /\ stale # None => cyc.cur = stale /\ cyc.rows0 = Len(current_coin) - Advances

C2_Witness ==
    /\ stale # None
    /\ cyc.cur = stale
    /\ cyc.rotation
    /\ trades[1].state = "ORDERED"

\* C3: when the sell leg of a rotation is attempted and fails, no buy order
\* is issued, the holding pointer is not moved, the threshold of no pair is
\* updated, and the rotation returns None to the scouting loop.
C3_SellLegFails ==
    cyc.ttb_sell = "fail" =>
        /\ Buys = 0
        /\ Advances = 0
        /\ get_current_coin = cyc.cur
        /\ Did("threshold") = 0
        /\ cyc.ttb = "none_returned"
        /\ ~cyc.raised
        /\ pc = "idle"

C3_Witness == cyc.ttb_sell = "fail" /\ cyc.ttb = "none_returned" /\ pc = "idle"

\* C4: over any sequence of TradeLog operations the states of a Trade are a
\* prefix of CREATED, ORDERED, COMPLETE.
C4_StatePrefix ==
    /\ Len(tlog) <= 3
    /\ \A i \in 1..Len(tlog) : tlog[i] = <<"CREATED", "ORDERED", "COMPLETE">>[i]

\* C5: within one cycle the sell order is issued at most once and the buy
\* order at most once.
C5_NoRetry == Sells <= 1 /\ Buys <= 1

\* C6: with stop-loss enabled and a held asset other than the stable asset,
\* the liquidation path is entered in a cycle exactly when
\* (recent_high - current_price) / recent_high * 100 >= stop_loss_percentage,
\* recent_high being the price the lookup returned; a high of 100, a price
\* of 80 and a threshold of 15 enter it.
C6_TripIffDrop ==
    /\ cyc.sl_checked =>
           (cyc.exec <=> /\ cyc.high # NoneN
                         /\ (cyc.high - cyc.price) * 100 >= stop_loss_percentage * cyc.high)
    /\ cyc.exec => cyc.sl_checked /\ stop_loss_enabled /\ cyc.cur # STABLE
    /\ (cyc.sl_checked /\ cyc.high = 100 /\ cyc.price = 80 /\ stop_loss_percentage = 15)
           => cyc.exec

C6_Witness ==
    /\ cyc.exec
    /\ ~cyc.no_data
    /\ cyc.high = 100
    /\ cyc.price = 80
    /\ stop_loss_percentage = 15

\* C7: when neither source has a recent high for the held asset, the
\* stop-loss does not trip in that cycle: the liquidation path is not
\* entered and issues no order.
C7_NoHighNoTrip ==
    (cyc.lookup /\ cyc.no_data) => ~cyc.exec /\ cyc.sl_events = <<>>

C9_SkipRest ==
    /\ cyc.sl_result = "true" => cyc.exec /\ ~cyc.rotation /\ pc = "idle"
    /\ (/\ InCycle
        /\ pc = "idle"
        /\ cyc.cur # STABLE
        /\ cyc.price # NoneN
        /\ cyc.sl_result # "true") => cyc.rotation

C9_Witness == cyc.sl_result = "true" /\ cyc.sl_outcome = "converted" /\ pc = "idle"

\* C10: on the liquidation path, a holding worth less than min_notional (a
\* zero balance included) is left alone: no order is issued, the holding
\* pointer is not set, and the path ends with "no balance" or "too small",
\* which is not an error.
C10_BelowMinNotional ==
    cyc.sl_below =>
        /\ cyc.sl_events = <<>>
        /\ cyc.sl_outcome \in {"no_balance", "too_small"}
        /\ cyc.sl_result = "false"
        /\ (pc = "jump" => Advances = 0 /\ Sells = 0 /\ get_current_coin = cyc.cur)

C10_Witness == cyc.sl_below /\ cyc.sl_outcome = "too_small" /\ pc = "jump"

\* C11: on the liquidation path with the stable asset as bridge, no buy
\* order is issued; the holding pointer is set to the stable asset in the
\* step in which the sale confirms and in no other; after a failed sale the
\* pointer still names the held asset.
C11_LiquidationToBridge ==
    (cyc.exec /\ bridge = STABLE) =>
        /\ cyc.sl_events \in {<<>>, <<"sell_fail">>, <<"sell_ok", "set">>}
        /\ (cyc.sl_events = <<"sell_ok", "set">> =>
               /\ get_current_coin = STABLE
               /\ Advances = 1
               /\ Buys = 0
               /\ pc = "idle")
        /\ (cyc.sl_events = <<"sell_fail">> /\ pc = "jump" =>
               /\ get_current_coin = cyc.cur
               /\ Advances = 0)
        /\ (cyc.sl_events = <<>> /\ pc \in {"exec", "sl_sell", "jump"} => Advances = 0)

C11_Witness ==
    /\ bridge = STABLE
    /\ cyc.sl_events = <<"sell_ok", "set">>
    /\ get_current_coin = STABLE

\* C12: on the rotation path the sell order is issued exactly when the
\* source is not the bridge and its balance, valued at the current price,
\* exceeds min_notional; a rotation that does not issue it goes on to the
\* buy leg.
C12_SellIffWorth ==
    cyc.ttb_worth # "none" =>
        /\ (pc = "ttb_sell" \/ cyc.ttb_sell \in {"ok", "fail"})
               <=> (cyc.cur # bridge /\ cyc.ttb_worth = "yes")
        /\ (cyc.ttb_worth # "yes" =>
               /\ cyc.ttb_sell = "skipped"
               /\ ~cyc.raised \/ cyc.to = STABLE
               /\ (pc = "idle" => Buys = 1 \/ cyc.to = STABLE))

\* C13: a rotation whose destination is the stable asset issues no buy
\* order and completes: the holding pointer is set to the stable asset, the
\* threshold is updated, and a result is returned without an exception; a
\* rotation to any other destination that gets past its sell leg issues the
\* buy order.
C13_BuySkippedToStable ==
    (cyc.ttb # "none" /\ cyc.ttb_sell \in {"ok", "skipped"}) =>
        /\ (Buys = 0 <=> cyc.to = STABLE)
        /\ (cyc.to = STABLE =>
               /\ get_current_coin = STABLE
               /\ Did("set") = 1
               /\ Did("threshold") = 1
               /\ cyc.ttb = "result_returned"
               /\ ~cyc.raised)

\* ------------------------------------------------------------ SpecRatios
\* Whether the price of a destination of the run resolved, and how many rows
\* and scores the run left for it.
Resolved(to) == OptionalPrice(to, re.op) # NoneN

RowsFor(to) ==
    Cardinality({k \in 1..Len(re.rows) : re.rows[k].pair = <<re.coin, to>>})

ScoresFor(to) == Cardinality({k \in 1..Len(re.scores) : re.scores[k].to = to})

\* C14: a run of the ratio engine leaves exactly one scout-history row and
\* exactly one score for every pair whose target price resolved, none of
\* either for a pair whose price did not resolve, and does not fail.
C14_OneRowOneScore ==
    re.done =>
        /\ ~re.raised
        /\ \A k \in 1..Len(re.dests) :
               LET n == IF Resolved(re.dests[k]) THEN 1 ELSE 0
               IN  RowsFor(re.dests[k]) = n /\ ScoresFor(re.dests[k]) = n

\* The score the formula of the ratio engine gives the pair into a
\* destination whose price resolved: cross_ratio * (1 - fee * sensitivity)
\* minus the baseline, as the fraction num / (10000 * den).
StatedScore(to) ==
    [num |-> re.coin_price * (10000 - (re.fi + re.fo[to]) * scout_multiplier * 10)
                 - ratio[<<re.coin, to>>] * re.op[to],
     den |-> re.op[to]]

\* The worked case: held price 2000, target price 40000, baseline 0.05,
\* total fee 0.002, sensitivity 5.
WorkedCase(to) ==
    /\ re.coin_price = 2000
    /\ re.op[to] = 40000
    /\ ratio[<<re.coin, to>>] = 500
    /\ re.fi + re.fo[to] = 2
    /\ scout_multiplier = 5

\* C15 as stated: every score of a pair between two assets that are not the
\* bridge is cross_ratio * (1 - fee * sensitivity) - baseline; in the
\* worked case it is -0.0005.
C15_AsStated ==
    re.done =>
        \A k \in 1..Len(re.scores) :
            LET e == re.scores[k]
            IN  (re.coin # bridge /\ e.to # bridge) =>
                    /\ e.score = StatedScore(e.to)
                    /\ (WorkedCase(e.to) => e.score.num = -5 * e.score.den)

\* C15: every score of a pair between two assets that are not USDT is
\* cross_ratio * (1 - fee * sensitivity) - baseline; in the worked case it
\* is -0.0005, which is not positive.
C15_BothNotStable ==
    re.done =>
        \A k \in 1..Len(re.scores) :
            LET e == re.scores[k]
            IN  (re.coin # STABLE /\ e.to # STABLE) =>
                    /\ e.score = StatedScore(e.to)
                    /\ (WorkedCase(e.to) =>
                            e.score.num = -5 * e.score.den /\ e.score.num <= 0)

C15_Witness ==
    /\ re.done
    /\ \E k \in 1..Len(re.scores) :
           /\ re.coin # STABLE
           /\ re.scores[k].to # STABLE
           /\ WorkedCase(re.scores[k].to)
           /\ re.scores[k].score = [num |-> -200000, den |-> 40000]

\* C16: for a pair whose destination is the bridge, whatever entry fee the
\* gateway returns, zero included, the run yields one score, computed with
\* target price exactly 1 and exit fee 0, and the same for every
\* sensitivity: held price * 1.001 - baseline.
C16_IntoBridge ==
    re.done =>
        \A k \in 1..Len(re.dests) :
            re.dests[k] = bridge =>
                \E j \in 1..Len(re.scores) :
                    /\ re.scores[j].to = bridge
                    /\ re.scores[j].score =
                           [num |-> re.coin_price * 10010 - ratio[<<re.coin, bridge>>],
                            den |-> 1]

\* The score a run gave the pair into to: a set with that score, empty when
\* the run gave it none.
ScoresOf(scores, to) == {scores[k].score : k \in {j \in 1..Len(scores) : scores[j].to = to}}

\* C19: with the same prices, fees, baselines and sensitivity, a pair gets
\* the same score from every run, whatever the order in which the run
\* visits its pairs and whichever other pairs the run has.
C19_OrderIndependent ==
    re.done =>
        \A T \in SUBSET (Coins \ {re.coin}) : \A alt \in Orders(T) :
            LET other == RatioLoop(NoRatios, alt, re.coin, re.coin_price,
                                   re.op, re.fi, re.fo)
            IN  \A k \in 1..Len(re.dests) :
                    re.dests[k] \in T =>
                        ScoresOf(re.scores, re.dests[k]) = ScoresOf(other.scores, re.dests[k])

\* --------------------------------------------------- scouting from USDT
\* The positive scores of a target of _scout_from_usdt, as sum and count.
TargetPotential(coin, p1, p2, fi, fo) ==
    IF p1[coin] = NoneN THEN [sum |-> 0, n |-> 0]
    ELSE PositiveSum(get_ratios(coin, p1[coin], p2, fi[coin], fo))

\* best is the choice the selection rule allows: the target with the
\* highest positive average, the first of them in the order of evaluation,
\* None when no target has a positive score.
RightChoice(best, p1, p2, fi, fo) ==
    LET pot(c) == TargetPotential(c, p1, p2, fi, fo)
        pos(k) == pot(target_coins[k]).n > 0
        \* average of j against average of k
        above(j, k) == pot(target_coins[j]).sum * pot(target_coins[k]).n
                          > pot(target_coins[k]).sum * pot(target_coins[j]).n
    IN  IF best = None THEN \A k \in 1..Len(target_coins) : ~pos(k)
        ELSE \E b \in 1..Len(target_coins) :
                /\ target_coins[b] = best
                /\ pos(b)
                /\ \A k \in 1..Len(target_coins) :
                       pos(k) => /\ ~above(k, b)
                                 /\ (k < b => above(b, k))

\* C17: in a cycle that starts with the stable bridge asset held, every
\* target is scored with the multiplier times 1.4, the target bought is the
\* one with the highest positive average, the first seen on a tie, and with
\* no positive target nothing is bought and the pointer stays.
C17_BoostedFromStable ==
    /\ (cyc.cur = STABLE /\ bridge = STABLE) =>
            /\ \A cmt \in cyc.usdt_cmt : cmt = scout_multiplier * 14
            /\ (pc = "idle" /\ cyc.to = None => Buys = 0 /\ Advances = 0)
            /\ (cyc.to # None => Buys <= 1 /\ (Did("set") = 1 => get_current_coin = cyc.to))
    /\ (pc = "usdt" /\ bridge = STABLE) =>
            \A p1 \in PriceMaps, p2 \in PriceMaps, fi \in FeeMaps, fo \in FeeMaps :
                RightChoice(best_coin(p1, p2, fi, fo), p1, p2, fi, fo)

C20_FatalOrUntouched ==
    /\ (boot.prior = None /\ boot.symbol # "" /\ boot.symbol \notin boot.supported) =>
            /\ boot.at \in {"start", "chosen", "exit"}
            /\ current_coin = <<>>
            /\ trades = <<>> /\ boot.orders = 0
    /\ boot.prior # None =>
            /\ boot.at \in {"start", "done"}
            /\ current_coin = <<boot.prior>>
            /\ trades = <<>> /\ boot.orders = 0

C20_Witness ==
    /\ boot.at = "exit"
    /\ boot.prior = None
    /\ boot.symbol = "XYZ"
    /\ current_coin = <<>>

\* -------------------------------------------------------- SpecRepository
\* C21: after any sequence of set_current_coin calls the table holds one
\* row per call, in the order of the calls, each with the coin of its call,
\* and get_current_coin returns the coin of the last call, None when no
\* call was made.
C21_AppendOnly ==
    /\ Len(db.current_coin) = Len(db.calls)
    /\ \A k \in 1..Len(db.calls) : db.current_coin[k].coin = db.calls[k]
    /\ \A k \in 1..(Len(db.calls) - 1) :
           db.current_coin[k].datetime < db.current_coin[k + 1].datetime
    /\ LatestRow(db.current_coin) = IF db.calls = <<>> THEN None ELSE Last(db.calls)

C21_Witness ==
    /\ Len(db.calls) = 2
    /\ db.calls[1] # db.calls[2]
    /\ LatestRow(db.current_coin) = db.calls[2]

\* The symbols of the Coin table, and those of its enabled rows.
Stored == {c.symbol : c \in db.coins}

EnabledNow == {c.symbol : c \in {x \in db.coins : x.enabled}}

\* C22: after any sequence of set_coins calls the Coin table holds one row
\* for every symbol of every list synced and no other, and a coin is
\* enabled exactly when the last list has its symbol.
C22_NeverDeleted ==
    /\ Stored = UNION {db.synced[k] : k \in 1..Len(db.synced)}
    /\ Cardinality(db.coins) = Cardinality(Stored)
    /\ db.synced # <<>> => EnabledNow = Last(db.synced)

C22_Witness ==
    /\ Len(db.synced) = 3
    /\ "ETH" \in db.synced[1] /\ "ETH" \notin db.synced[2] /\ "ETH" \in db.synced[3]
    /\ "BUSD" \in db.synced[2] /\ "BUSD" \notin db.synced[3]
    /\ [symbol |-> "ETH", enabled |-> TRUE] \in db.coins
    /\ [symbol |-> "BUSD", enabled |-> FALSE] \in db.coins

\* How many Pair rows go from one coin to another.
PairRows(from_coin, to_coin) ==
    Cardinality({k \in 1..Len(db.pairs) : db.pairs[k] = <<from_coin, to_coin>>})

\* C23: after any sequence of set_coins calls there is exactly one Pair for
\* every two different enabled coins in each direction, no Pair from a coin
\* to itself, and a sync with the list of the sync before adds no Pair.
C23_OnePairPerDirection ==
    /\ \A a \in EnabledNow, b \in EnabledNow : a # b => PairRows(a, b) = 1
    /\ \A k \in 1..Len(db.pairs) : db.pairs[k][1] # db.pairs[k][2]
    /\ \A k \in 2..Len(db.synced) :
           db.synced[k] = db.synced[k - 1] => db.npairs[k] = db.npairs[k - 1]

C23_Witness ==
    /\ Len(db.synced) = 2
    /\ db.synced[1] = Coins
    /\ db.synced[2] = Coins
    /\ Len(db.pairs) = 6

\* ---------------------------------------------------------- SpecSnapshot
\* The pairs a cycle from USDT compares when every read sees the coins
\* that were enabled at its first read: those from a target to another
\* enabled coin.
SnapshotPairs(snap) ==
    {p \in Pairs : p[1] \in snap /\ p[1] # STABLE /\ p[2] \in snap}

\* C24: the pairs a cycle compares are pairs of the coins that were
\* enabled at the first read of the cycle, whatever a sync changes while
\* the cycle runs, and at the end of the cycle they are all the pairs of
\* that snapshot that leave a target whose price resolved.
C24_OneSnapshot ==
    (cyc.cur = STABLE /\ pc \in {"usdt_loop", "idle"}) =>
        /\ cyc.compared \subseteq SnapshotPairs(cyc.snap)
        /\ (pc = "idle" /\ cyc.snap # {} =>
                cyc.compared = {p \in SnapshotPairs(cyc.snap) : p[1] \in cyc.priced})

\* ---------------------------------------------------------- SpecTradeLog
\* The amounts the transition to ORDERED writes.
OrderedAmounts(t) ==
    <<t.alt_starting_balance, t.alt_trade_amount, t.crypto_starting_balance>>

\* C25: over any sequence of TradeLog operations the starting balances and
\* the traded amount change only in the step from CREATED to ORDERED, the
\* acquired amount only in the step from ORDERED to COMPLETE, and an amount
\* once set is not changed again.
C25_AmountsOnce ==
    [][/\ (OrderedAmounts(tl') # OrderedAmounts(tl) =>
              /\ tl.state = "CREATED" /\ tl'.state = "ORDERED"
              /\ OrderedAmounts(tl) = <<NoneN, NoneN, NoneN>>)
       /\ (tl'.crypto_trade_amount # tl.crypto_trade_amount =>
              /\ tl.state = "ORDERED" /\ tl'.state = "COMPLETE"
              /\ tl.crypto_trade_amount = NoneN)]_vars

\* -------------------------------------------------------------- SpecHigh
\* C26: the recent high is at least every price point of the coin and every
\* scout-history source price of a pair from the coin that lie within the
\* last TRAILING_STOP_HOURS hours.
C26_CoversWindow ==
    db.looked =>
        /\ \A v \in coin_values :
               (v.coin = db.coin /\ v.datetime >= now - TRAILING_STOP_HOURS) =>
                   db.high >= v.usd_price
        /\ \A k \in 1..Len(scout_history) :
               (/\ scout_history[k].pair[1] = db.coin
                /\ scout_history[k].datetime >= now - TRAILING_STOP_HOURS) =>
                   db.high >= scout_history[k].current_coin_price

\* C27: the recent high is the higher of the price-point high and the
\* scout-history high when both lookups have data, the one that has data
\* when one has, and the live price when neither has.
C27_HighOfSources ==
    db.looked =>
        LET values == get_coin_high_price_from_values(db.coin, TRAILING_STOP_HOURS \div 24 + 1)
            scout == get_coin_recent_high_price(db.coin, TRAILING_STOP_HOURS)
        IN  /\ (values # NoneN /\ scout # NoneN) =>
                   db.high \in {values, scout} /\ db.high >= values /\ db.high >= scout
            /\ (values # NoneN /\ scout = NoneN) => db.high = values
            /\ (values = NoneN /\ scout # NoneN) => db.high = scout
            /\ (values = NoneN /\ scout = NoneN) => db.high = db.live

C27_Witness ==
    /\ db.looked
    /\ get_coin_high_price_from_values(db.coin, TRAILING_STOP_HOURS \div 24 + 1) = 80
    /\ get_coin_recent_high_price(db.coin, TRAILING_STOP_HOURS) = 100
    /\ db.high = 100

\* ------------------------------------------------------------------ Spec
\* C28: when the liquidation reported success, so that the rest of the
\* cycle was skipped, the pointer names the stable asset at the end of the
\* cycle.
C28_SuccessMeansStable ==
    (cyc.sl_result = "true" /\ pc = "idle") => get_current_coin = STABLE

\* C29: a cycle in which the price of the held asset against the bridge
\* did not resolve ends in the step that read the price: no stop-loss
\* check, no lookup, no order, no rotation, and that step leaves the
\* scout history, the Trade table and the pointer as they were.
C29_UnpricedCycleIsIdle ==
    /\ []((InCycle /\ cyc.cur # STABLE /\ cyc.price = NoneN) =>
             /\ pc = "idle"
             /\ cyc.events = <<>>
             /\ ~cyc.sl_checked /\ ~cyc.lookup /\ ~cyc.exec /\ ~cyc.rotation
             /\ Advances = 0)
    /\ [][(ncycles' = ncycles + 1 /\ cyc'.cur # STABLE /\ cyc'.price = NoneN) =>
             /\ scout_history' = scout_history
             /\ trades' = trades
             /\ current_coin' = current_coin]_vars

C29_Witness ==
    /\ InCycle
    /\ cyc.cur \notin {STABLE, bridge}
    /\ cyc.price = NoneN
    /\ stop_loss_enabled
    /\ pc = "idle"

\* C30: with the stop-loss flag off no cycle makes the stop-loss check, the
\* recent-high lookup or a liquidation order, whatever was recorded, and a
\* cycle whose held price resolved goes on to the evaluation of rotations.
C30_DisabledNeverLiquidates ==
    (~stop_loss_enabled /\ InCycle) =>
        /\ pc \notin {"check", "exec", "sl_sell", "sl_buy"}
        /\ ~cyc.sl_checked /\ ~cyc.lookup /\ ~cyc.exec
        /\ cyc.sl_events = <<>>
        /\ (cyc.cur # STABLE /\ cyc.price # NoneN => pc = "jump" \/ cyc.rotation)

C30_Witness ==
    /\ ~stop_loss_enabled
    /\ cyc.rotation
    /\ cyc.price = 80
    /\ ValueRow(cyc.cur, 100) \in coin_values
    /\ pc = "idle"

====
